---- MODULE Spec2Model ----
(***************************************************************************)
(* Listener registry and dispatch algorithm of the event dispatcher:       *)
(* SimpleEventDispatcher, NodeEventDispatcher, BrowserEventDispatcher and  *)
(* the subscriber adapter of AbstractEventDispatcher.                      *)
(*                                                                         *)
(* A callback is the triple <<owner, method, k>>: <<"fn", kind, 0>> is a   *)
(* free function whose body behaves as `kind`, <<s, m, k>> is the k-th     *)
(* function made by s[m].bind(s).  Two callbacks are identical (===) iff   *)
(* the triples are equal.                                                  *)
(***************************************************************************)
EXTENDS Integers, Sequences, FiniteSets, TLC

VARIABLES impl, listeners, sorted, keys, subscriberListeners, promises, last,
          held, native, target

vars == <<impl, listeners, sorted, keys, subscriberListeners, promises, last,
          held, native, target>>

\* ---------------------------------------------------------------- bounds
MaxEntries == 2
MaxPending == 2
MaxOrder == 3
MaxRegistry == 3
MaxPendingAll == 1
MaxNative == 2
MaxReentrant == 3
MaxNested == 3
MaxTarget == 2

\* ---------------------------------------------------------------- inputs
Impls == {"Simple", "Node", "Browser"}
Null == "<null>"
Names == {"", "BaseEvent"}
Priorities == {0, 5}
FnKinds == {"ok", "stop", "throw", "async"}
Fns == {<<"fn", k, 0>> : k \in FnKinds}
\* an event is [kind, stopped]: a BaseEvent carries the stop flag, a plain
\* object has neither isPropagationStopped nor stopPropagation.
Events == {[kind |-> "BaseEvent", stopped |-> FALSE],
           [kind |-> "BaseEvent", stopped |-> TRUE],
           [kind |-> "Object", stopped |-> FALSE]}
Subscribers == {"s1", "s2"}

\* getSubscribedEvents(): event name -> method name | {listener, priority?}
\* in the order of Object.entries; bare = the value is a method name,
\* given = the descriptor carries a priority.  The second entry of s3
\* names a method that s3 does not have.
getSubscribedEvents(s) ==
    IF s = "s1"
    THEN <<[name |-> "BaseEvent", bare |-> FALSE, listener |-> "m1",
            given |-> TRUE, priority |-> 5],
           [name |-> "", bare |-> TRUE, listener |-> "m2",
            given |-> FALSE, priority |-> 0]>>
    ELSE IF s = "s3"
    THEN <<[name |-> "BaseEvent", bare |-> TRUE, listener |-> "m1",
            given |-> FALSE, priority |-> 0],
           [name |-> "Inner", bare |-> TRUE, listener |-> "m2",
            given |-> FALSE, priority |-> 0]>>
    ELSE <<[name |-> "BaseEvent", bare |-> FALSE, listener |-> "m1",
            given |-> FALSE, priority |-> 0]>>

\* the methods of the subscriber object
Methods(s) == IF s = "s1" THEN {"m1", "m2"} ELSE {"m1"}

\* ------------------------------------------------------------- helpers
Truthy(eventName) == eventName # Null /\ eventName # ""

Has(L, eventName) == eventName \in DOMAIN L

MapSet(L, k, v) == [n \in (DOMAIN L) \cup {k} |-> IF n = k THEN v ELSE L[n]]

MapDelete(L, k) == [n \in (DOMAIN L) \ {k} |-> L[n]]

MapGet(L, k, dflt) == IF k \in DOMAIN L THEN L[k] ELSE dflt

TotalEntries(L) ==
    LET RECURSIVE Sum(_)
        Sum(S) == IF S = {} THEN 0
                  ELSE LET n == CHOOSE x \in S : TRUE
                       IN Len(L[n]) + Sum(S \ {n})
    IN Sum(DOMAIN L)

\* Array.prototype.findIndex(item => item.listener === listener); 0 for -1.
FindIndex(arr, listener) ==
    IF \E i \in 1..Len(arr) : arr[i].listener = listener
    THEN CHOOSE i \in 1..Len(arr) :
            /\ arr[i].listener = listener
            /\ \A j \in 1..(i-1) : arr[j].listener # listener
    ELSE 0

\* Array.prototype.splice(index, 1); the registration stamps (ghost field
\* reg) of the later registrations close the gap.
Splice(arr, index) ==
    LET gone == arr[index].reg
        rest == SubSeq(arr, 1, index-1) \o SubSeq(arr, index+1, Len(arr))
    IN [i \in 1..Len(rest) |->
          [rest[i] EXCEPT !.reg = IF @ > gone THEN @ - 1 ELSE @]]

\* Array.prototype.push({listener, priority})
Push(arr, listener, priority) ==
    Append(arr, [listener |-> listener, priority |-> priority, reg |-> Len(arr) + 1])

\* comparator (a, b) => b.priority - a.priority
Compare(a, b) == b.priority - a.priority

\* Array.prototype.sort(cmp) is stable: an element is placed behind every
\* element that does not have to come after it.
RECURSIVE InsertUnstable(_, _)
InsertUnstable(acc, e) ==
    IF acc = <<>> THEN <<e>>
    ELSE IF Compare(acc[Len(acc)], e) < 0
         THEN Append(acc, e)
         ELSE Append(InsertUnstable(SubSeq(acc, 1, Len(acc)-1), e), acc[Len(acc)])

RECURSIVE InsertSorted(_, _)
InsertSorted(acc, e) ==
    IF acc = <<>> THEN <<e>>
    ELSE IF Compare(acc[Len(acc)], e) <= 0
         THEN Append(acc, e)
         ELSE Append(InsertSorted(SubSeq(acc, 1, Len(acc)-1), e), acc[Len(acc)])

RECURSIVE SortArray(_)
SortArray(arr) ==
    IF arr = <<>> THEN <<>>
    ELSE InsertSorted(SortArray(SubSeq(arr, 1, Len(arr)-1)), arr[Len(arr)])

MapListener(arr) == [i \in 1..Len(arr) |-> arr[i].listener]

\* ------------------------------------------------------------ registry
\* The registry R is [listeners, sorted, keys]: the two Maps and the
\* insertion order of the keys of `listeners`, which is the order its
\* iterator follows.
Reg == [listeners |-> listeners, sorted |-> sorted, keys |-> keys]

RECURSIVE Without(_, _)
Without(seq, x) ==
    IF seq = <<>> THEN <<>>
    ELSE IF Head(seq) = x THEN Without(Tail(seq), x)
         ELSE <<Head(seq)>> \o Without(Tail(seq), x)

\* a sortListeners that sets the flag and leaves the array as it is
sortListenersFlagOnly(R, eventName) ==
    [R EXCEPT !.sorted = MapSet(@, eventName, TRUE)]

\* sortListeners(eventName): sort the stored array in place, set the flag.
sortListeners(R, eventName) ==
    [R EXCEPT !.listeners = [@ EXCEPT ![eventName] = SortArray(@)],
              !.sorted = MapSet(@, eventName, TRUE)]

\* hasListeners(eventName?)
hasListenersIn(L, eventName) ==
    IF Truthy(eventName)
    THEN Has(L, eventName) /\ Len(L[eventName]) > 0
    ELSE DOMAIN L # {}

hasListeners(eventName) == hasListenersIn(listeners, eventName)

\* `found.priority || null` returns null for the priority 0
getListenerPriorityFalsy(eventName, listener) ==
    IF ~Has(listeners, eventName) THEN [kind |-> "null", value |-> 0]
    ELSE LET i == FindIndex(listeners[eventName], listener)
         IN IF i = 0 \/ listeners[eventName][i].priority = 0
            THEN [kind |-> "null", value |-> 0]
            ELSE [kind |-> "number", value |-> listeners[eventName][i].priority]

\* getListenerPriority(eventName, listener): null or the number found
getListenerPriority(eventName, listener) ==
    IF ~Has(listeners, eventName) THEN [kind |-> "null", value |-> 0]
    ELSE LET i == FindIndex(listeners[eventName], listener)
         IN IF i = 0 THEN [kind |-> "null", value |-> 0]
            ELSE [kind |-> "number", value |-> listeners[eventName][i].priority]

\* getListeners(eventName) with a truthy name: the registry after the lazy
\* sort and the returned array.
getListenersOf(R, eventName) ==
    IF ~Has(R.listeners, eventName)
    THEN [reg |-> R, list |-> <<>>]
    ELSE LET R1 == IF ~MapGet(R.sorted, eventName, FALSE)
                   THEN sortListeners(R, eventName)
                   ELSE R
         IN [reg |-> R1, list |-> MapListener(R1.listeners[eventName])]

\* getListeners() with no truthy name: `for (const [name] of this.listeners)
\* allListeners.set(name, this.getListeners(name))`.  For the key "" the
\* inner call takes this branch again and starts the same loop again: the
\* recursion has no end and the call stack overflows (RangeError).
RECURSIVE getListenersAll(_, _)
getListenersAll(R, i) ==
    IF i > Len(R.keys) THEN [reg |-> R, threw |-> FALSE]
    ELSE IF ~Truthy(R.keys[i]) THEN [reg |-> R, threw |-> TRUE]
    ELSE getListenersAll(getListenersOf(R, R.keys[i]).reg, i+1)

NoEvent == [kind |-> "none", stopped |-> FALSE]

\* result of the last call: what it returned or threw and what it invoked.
\*   found  removeListener / removeSubscriber met what it was to remove
\*   keys   getListeners(): the keys of the returned Map; addSubscriber: the
\*          names that had listeners before the call; removeSubscriber: keys
\*          of the call before it
\*   was    dispatch: the event was stopped when passed in; removeSubscriber:
\*          the call before it was addSubscriber of the same subscriber
\*   cb     the callback passed to addListener, removeListener or
\*          getListenerPriority
\*   priority  the number returned by getListenerPriority
\*   arg    the eventName passed to dispatch
\*   attached  removeListener: how many listeners the emitter / EventTarget
\*          held under the name before the call
\*   calls  dispatch: the invocations of registered listeners by the call
\*          and by the dispatch calls of its listeners, with their depth
\*   emitted  dispatch: the names emitted on the emitter / EventTarget
\*   trace  dispatch: "native" for each invocation of a listener attached
\*          to the emitter / EventTarget and "registry" for each invocation
\*          of a registered listener, in the order of the invocations
NoResult == [op |-> "init", name |-> Null, threw |-> FALSE, found |-> FALSE,
             kind |-> "void", list |-> <<>>, keys |-> {}, log |-> <<>>,
             sink |-> 0, made |-> 0, event |-> NoEvent, was |-> FALSE,
             cb |-> <<>>, priority |-> 0, arg |-> Null, trace |-> <<>>,
             emitted |-> <<>>, attached |-> 0,
             calls |-> <<>>]

Init ==
    /\ impl \in Impls
    /\ listeners = <<>>
    /\ sorted = <<>>
    /\ keys = <<>>
    /\ subscriberListeners = <<>>
    /\ promises = <<>>
    /\ last = NoResult
    /\ held = NoEvent
    /\ native = <<>>
    /\ target = <<>>

SetReg(R) ==
    /\ listeners' = R.listeners
    /\ sorted' = R.sorted
    /\ keys' = R.keys

\* an addListener that updates the priority of a callback it already holds
addListenerDedup(R, eventName, listener, priority) ==
    LET R1 == IF ~Has(R.listeners, eventName)
              THEN [R EXCEPT !.listeners = MapSet(@, eventName, <<>>),
                             !.keys = Append(@, eventName)]
              ELSE R
        index == FindIndex(R1.listeners[eventName], listener)
    IN [R1 EXCEPT !.listeners = [@ EXCEPT ![eventName] =
                                   IF index = 0 THEN Push(@, listener, priority)
                                   ELSE [@ EXCEPT ![index].priority = priority]],
                  !.sorted = MapSet(@, eventName, FALSE)]

\* addListener(eventName, listener, priority = 0)
addListenerTo(R, eventName, listener, priority) ==
    LET R1 == IF ~Has(R.listeners, eventName)
              THEN [R EXCEPT !.listeners = MapSet(@, eventName, <<>>),
                             !.keys = Append(@, eventName)]
              ELSE R
    IN [R1 EXCEPT !.listeners = [@ EXCEPT ![eventName] = Push(@, listener, priority)],
                  !.sorted = MapSet(@, eventName, FALSE)]

AddListener(eventName, listener, priority) ==
    /\ SetReg(addListenerTo(Reg, eventName, listener, priority))
    /\ last' = [NoResult EXCEPT !.op = "addListener", !.name = eventName,
                  !.cb = listener]
    /\ UNCHANGED <<impl, target, subscriberListeners, promises, held, native>>

\* addListener(eventName, listener): the default of the third parameter
DefaultPriority == 0

AddListenerDefault(eventName, listener) ==
    AddListener(eventName, listener, DefaultPriority)

\* without the `index !== -1` test splice(-1, 1) takes the last element
removeListenerUnguarded(R, eventName, listener) ==
    IF ~Has(R.listeners, eventName) THEN R
    ELSE LET index == FindIndex(R.listeners[eventName], listener)
             arr == Splice(R.listeners[eventName],
                           IF index # 0 THEN index ELSE Len(R.listeners[eventName]))
         IN IF Len(arr) = 0
            THEN [listeners |-> MapDelete(R.listeners, eventName),
                  sorted |-> MapDelete(R.sorted, eventName),
                  keys |-> Without(R.keys, eventName)]
            ELSE [R EXCEPT !.listeners = [@ EXCEPT ![eventName] = arr]]

\* EventEmitter.removeAllListeners(eventName) for each name of `gone`
removeAllListeners(N, gone) == [n \in (DOMAIN N) \ gone |-> N[n]]

\* a removeListener that leaves the emitter alone
NativeKept(L0, L1) == native

\* NodeEventDispatcher.removeListener ends, for a name its removal emptied
\* (which it then deletes from the Map), with
\* this.emitter.removeAllListeners(eventName); L0 and L1 are the Map before
\* and after.  The other two classes leave the native listeners alone.
NativeAfter(L0, L1) ==
    IF impl = "Node" THEN removeAllListeners(native, (DOMAIN L0) \ (DOMAIN L1))
    ELSE native

\* a removeListener that filters the array takes every entry of the callback
removeListenerEvery(R, eventName, listener) ==
    IF ~Has(R.listeners, eventName) THEN R
    ELSE LET arr == SelectSeq(R.listeners[eventName],
                              LAMBDA e : e.listener # listener)
         IN IF Len(arr) = 0
            THEN [listeners |-> MapDelete(R.listeners, eventName),
                  sorted |-> MapDelete(R.sorted, eventName),
                  keys |-> Without(R.keys, eventName)]
            ELSE [R EXCEPT !.listeners = [@ EXCEPT ![eventName] = arr]]

\* a removeListener that marks the name it leaves behind as unsorted
removeListenerReset(R, eventName, listener) ==
    IF ~Has(R.listeners, eventName) THEN R
    ELSE LET index == FindIndex(R.listeners[eventName], listener)
             arr == IF index # 0 THEN Splice(R.listeners[eventName], index)
                    ELSE R.listeners[eventName]
         IN IF Len(arr) = 0
            THEN [listeners |-> MapDelete(R.listeners, eventName),
                  sorted |-> MapDelete(R.sorted, eventName),
                  keys |-> Without(R.keys, eventName)]
            ELSE [R EXCEPT !.listeners = [@ EXCEPT ![eventName] = arr],
                           !.sorted = MapSet(@, eventName, FALSE)]

\* a removeListener without the `length === 0` clean-up
removeListenerKeepEmpty(R, eventName, listener) ==
    IF ~Has(R.listeners, eventName) THEN R
    ELSE LET index == FindIndex(R.listeners[eventName], listener)
             arr == IF index # 0 THEN Splice(R.listeners[eventName], index)
                    ELSE R.listeners[eventName]
         IN [R EXCEPT !.listeners = [@ EXCEPT ![eventName] = arr]]

\* removeListener(eventName, listener)
removeListenerFrom(R, eventName, listener) ==
    IF ~Has(R.listeners, eventName) THEN R
    ELSE LET index == FindIndex(R.listeners[eventName], listener)
             arr == IF index # 0 THEN Splice(R.listeners[eventName], index)
                    ELSE R.listeners[eventName]
         IN IF Len(arr) = 0
            THEN [listeners |-> MapDelete(R.listeners, eventName),
                  sorted |-> MapDelete(R.sorted, eventName),
                  keys |-> Without(R.keys, eventName)]
            ELSE [R EXCEPT !.listeners = [@ EXCEPT ![eventName] = arr]]

RemoveListener(eventName, listener) ==
    /\ SetReg(removeListenerFrom(Reg, eventName, listener))
    /\ last' = [NoResult EXCEPT !.op = "removeListener", !.name = eventName,
                  !.cb = listener,
                  !.attached = Len(MapGet(native, eventName, <<>>)),
                  !.found = /\ Has(listeners, eventName)
                            /\ FindIndex(listeners[eventName], listener) # 0]
    /\ native' = NativeAfter(listeners, listeners')
    /\ UNCHANGED <<impl, target, subscriberListeners, promises, held>>

\* getListenerPriority(eventName, listener) as a call
GetListenerPriority(eventName, listener) ==
    /\ last' = [NoResult EXCEPT !.op = "getListenerPriority", !.name = eventName,
                  !.cb = listener,
                  !.kind = getListenerPriority(eventName, listener).kind,
                  !.priority = getListenerPriority(eventName, listener).value]
    /\ UNCHANGED <<impl, target, listeners, sorted, keys, subscriberListeners, promises,
                   held, native>>

\* getListeners(eventName?)
GetListeners(eventName) ==
    /\ IF Truthy(eventName)
       THEN LET r == getListenersOf(Reg, eventName)
            IN /\ SetReg(r.reg)
               /\ last' = [NoResult EXCEPT !.op = "getListeners",
                             !.name = eventName, !.kind = "list", !.list = r.list]
       ELSE LET r == getListenersAll(Reg, 1)
            IN /\ SetReg(r.reg)
               /\ last' = [NoResult EXCEPT !.op = "getListeners",
                             !.name = eventName, !.threw = r.threw,
                             !.kind = IF r.threw THEN "void" ELSE "map",
                             !.keys = IF r.threw THEN {} ELSE DOMAIN r.reg.listeners]
    /\ UNCHANGED <<impl, target, subscriberListeners, promises, held, native>>

\* ------------------------------------------------------------ BaseEvent
\* `new BaseEvent()`: propagationStopped = false
NewEvent == [kind |-> "BaseEvent", stopped |-> FALSE]

\* BaseEvent.isPropagationStopped()
isPropagationStopped(event) == event.stopped

\* a stopPropagation() that flips the flag
stopPropagationToggle(event) == [event EXCEPT !.stopped = ~@]

\* BaseEvent.stopPropagation()
stopPropagation(event) == [event EXCEPT !.stopped = TRUE]

\* the caller constructs a BaseEvent and keeps it
NewBaseEvent ==
    /\ held' = NewEvent
    /\ last' = [NoResult EXCEPT !.op = "new", !.event = NewEvent]
    /\ UNCHANGED <<impl, target, listeners, sorted, keys, subscriberListeners, promises,
                   native>>

\* the caller calls stopPropagation() on its event; was = the flag before
StopPropagation ==
    /\ held.kind = "BaseEvent"
    /\ held' = stopPropagation(held)
    /\ last' = [NoResult EXCEPT !.op = "stopPropagation", !.event = held,
                  !.was = held.stopped]
    /\ UNCHANGED <<impl, target, listeners, sorted, keys, subscriberListeners, promises,
                   native>>

\* the caller calls isPropagationStopped() on its event; was = the result
IsPropagationStopped ==
    /\ held.kind = "BaseEvent"
    /\ last' = [NoResult EXCEPT !.op = "isPropagationStopped", !.event = held,
                  !.kind = "boolean", !.was = isPropagationStopped(held)]
    /\ UNCHANGED <<impl, target, listeners, sorted, keys, subscriberListeners, promises,
                   held, native>>

\* ------------------------------------------------------------ dispatch
\* isStoppableEvent(event): 'isPropagationStopped' in event
isStoppableEvent(event) == event.kind \in {"BaseEvent", "Child"}

\* `eventName ?? event.constructor.name`
ResolveName(event, eventName) == IF eventName = Null THEN event.kind ELSE eventName

\* What the loops of dispatch iterate over: the array returned by
\* getListeners(name) or, for a name that is not truthy, the entries
\* [name, array] of the returned Map, which are not functions.
MapEntry(n) == [listener |-> <<"entry", n, 0>>, priority |-> 0, reg |-> 0]

Lookup(R, name) ==
    IF Truthy(name)
    THEN LET r == getListenersOf(R, name)
         IN [reg |-> r.reg, threw |-> FALSE,
             items |-> IF Has(r.reg.listeners, name) THEN r.reg.listeners[name]
                       ELSE <<>>]
    ELSE LET r == getListenersAll(R, 1)
         IN [reg |-> r.reg, threw |-> r.threw,
             items |-> IF r.threw THEN <<>>
                       ELSE [i \in 1..Len(r.reg.keys) |-> MapEntry(r.reg.keys[i])]]

\* an async listener that calls stopPropagation() before its first await
CallStopsAtOnce(cb, event) ==
    IF cb[1] = "entry" THEN [end |-> "typeerror", stopped |-> event.stopped]
    ELSE IF cb[1] # "fn" THEN [end |-> "return", stopped |-> event.stopped]
    ELSE CASE cb[2] = "ok"    -> [end |-> "return", stopped |-> event.stopped]
           [] cb[2] = "stop"  -> IF isStoppableEvent(event)
                                 THEN [end |-> "return",
                                       stopped |-> stopPropagation(event).stopped]
                                 ELSE [end |-> "throw", stopped |-> event.stopped]
           [] cb[2] = "throw" -> [end |-> "throw", stopped |-> event.stopped]
           [] cb[2] = "async" -> [end |-> "promise", stopped |-> event.stopped]
           [] cb[2] = "later" -> [end |-> "promise",
                                  stopped |-> stopPropagation(event).stopped]

\* listener(event): how the call ends and what it did to the event.
\*   "return"  it returned undefined        "promise"  it returned a promise
\*   "throw"   it threw synchronously       "typeerror" the item is no function
\* The listener "later" is `async e => { await 0; e.stopPropagation() }`:
\* its call returns the promise at the await, before the stopPropagation.
Call(cb, event) ==
    IF cb[1] = "entry" THEN [end |-> "typeerror", stopped |-> event.stopped]
    ELSE IF cb[1] # "fn" THEN [end |-> "return", stopped |-> event.stopped]
    ELSE CASE cb[2] = "ok"    -> [end |-> "return", stopped |-> event.stopped]
           [] cb[2] = "stop"  -> IF isStoppableEvent(event)
                                 THEN [end |-> "return",
                                       stopped |-> stopPropagation(event).stopped]
                                 ELSE [end |-> "throw", stopped |-> event.stopped]
           [] cb[2] = "throw" -> [end |-> "throw", stopped |-> event.stopped]
           [] cb[2] = "async" -> [end |-> "promise", stopped |-> event.stopped]
           [] cb[2] = "later" -> [end |-> "promise", stopped |-> event.stopped]

StopCheckNever(event) == FALSE

\* `if (isStoppable && event.isPropagationStopped()) break;`
StopCheck(event) == isStoppableEvent(event) /\ isPropagationStopped(event)

\* NodeEventDispatcher.dispatch starts with this.emitter.emit(name, event).
\* The dispatcher attaches nothing to its emitter, and an EventEmitter
\* without a listener for 'error' throws when 'error' is emitted.
EmitThrows(name) ==
    impl = "Node" /\ name = "error" /\ MapGet(native, name, <<>>) = <<>>

\* The listeners attached to the emitter (Node) or to the EventTarget
\* (Browser) for the name, called in the order they were attached.  Node's
\* emit passes them the event and lets an exception of a listener out;
\* dispatchEvent passes a CustomEvent whose detail is the event, reports an
\* exception of a listener and goes on.
RECURSIVE EmitLoop(_, _, _)
EmitLoop(ls, i, st) ==
    IF i > Len(ls) THEN st
    ELSE LET r == Call(<<"fn", ls[i], 0>>, st.event)
             s1 == [st EXCEPT !.nat = @ + 1,
                              !.event = [@ EXCEPT !.stopped = r.stopped]]
         IN IF r.end = "throw" /\ impl = "Node"
            THEN [s1 EXCEPT !.threw = TRUE]
            ELSE EmitLoop(ls, i+1, s1)

\* what SimpleEventDispatcher, which has no emitter, does instead of emit
NoEmit(event) == [event |-> event, nat |-> 0, threw |-> FALSE, emitted |-> <<>>]

\* an emit placed behind the `if (!this.hasListeners(name)) return event`
EmitBehindReturn(name, event) ==
    IF impl = "Simple" \/ ~hasListeners(name) THEN NoEmit(event)
    ELSE EmitLoop(MapGet(native, name, <<>>), 1,
                  [NoEmit(event) EXCEPT !.emitted = <<name>>])

\* this.emitter.emit(name, event) / this.eventTarget.dispatchEvent(customEvent);
\* emitted holds the names the call put on the emitter / EventTarget
Emit(name, event) ==
    IF impl = "Simple" THEN NoEmit(event)
    ELSE IF EmitThrows(name)
    THEN [NoEmit(event) EXCEPT !.threw = TRUE, !.emitted = <<name>>]
    ELSE EmitLoop(MapGet(native, name, <<>>), 1,
                  [NoEmit(event) EXCEPT !.emitted = <<name>>])

\* What a listener can reach besides its event, the dispatcher:
\*   reg    the registry
\*   name   the name the running dispatch looked up
\*   depth  how many dispatch calls are on the stack below the running one
\*   calls  the invocations of registered listeners so far, in the order
\*          they began, each with the depth of the dispatch that made it
World(R) == [reg |-> R, name |-> Null, depth |-> 0, calls |-> <<>>]

\* A listener that calls d.addListener / d.removeListener for EditFn under
\* EditName, and the event a listener dispatches from inside a dispatch
\* (README "Event Chaining"): an instance of a subclass of BaseEvent.
EditName == "BaseEvent"
EditFn == <<"fn", "ok", 0>>
EditPriority == 10
ChildEvent == [kind |-> "Child", stopped |-> FALSE]

RECURSIVE Body(_, _, _)
RECURSIVE RunIn(_, _, _)
RECURSIVE dispatchIn(_, _, _)

\* a listener that touches neither the registry nor the dispatcher
Plainly(cb, event, W) ==
    [end |-> Call(cb, event).end, stopped |-> Call(cb, event).stopped,
     world |-> W, sink |-> 0, made |-> <<>>]

\* what the listener that called dispatch, and dropped what it returned,
\* ends with: the exception of that dispatch, or a plain return
Nested(event, d) ==
    [end |-> IF d.threw THEN "throw" ELSE "return",
     stopped |-> event.stopped, world |-> d.world,
     sink |-> d.sink, made |-> d.made]

\* listener(event) with what the listener does to the dispatcher:
\*   <<"edit", "add", 0>>     calls addListener(EditName, EditFn, EditPriority)
\*   <<"edit", "remove", 0>>  calls removeListener(EditName, EditFn)
\*   <<"nest", name, 0>>      calls dispatch(new Child(), name), unless the
\*                            event it received is itself a Child
\* sink and made are the reports and the promises of the dispatch calls
\* the listener made.
Body(cb, event, W) ==
    IF cb[1] = "entry" THEN Plainly(cb, event, W)
    ELSE LET W1 == [W EXCEPT !.calls = Append(@, [depth |-> W.depth,
                                                  listener |-> cb])]
         IN CASE cb[1] = "edit" /\ cb[2] = "add" ->
                   [Plainly(cb, event, W1) EXCEPT !.world.reg =
                       addListenerTo(@, EditName, EditFn, EditPriority)]
              [] cb[1] = "edit" /\ cb[2] = "remove" ->
                   [Plainly(cb, event, W1) EXCEPT !.world.reg =
                       removeListenerFrom(@, EditName, EditFn)]
              [] cb[1] = "nest" /\ event.kind # "Child" ->
                   Nested(event, dispatchIn(W1, ChildEvent, cb[2]))
              [] OTHER -> Plainly(cb, event, W1)

\* the state of the loop once the listener of `item` has ended as r says
Invoked(st, item, r) ==
    [st EXCEPT !.log = IF r.end = "typeerror" THEN @ ELSE Append(@, item),
               !.event = [@ EXCEPT !.stopped = r.stopped],
               !.world = r.world,
               !.sink = @ + r.sink,
               !.made = @ \o r.made,
               !.end = r.end]

\* the listener of items[i] called from the loop in state st
Invoke(items, i, st) ==
    Invoked(st, items[i], Body(items[i].listener, st.event, st.world))

RECURSIVE doDispatchLive(_, _, _)
RECURSIVE doDispatch(_, _, _)
RECURSIVE NodeLoopAwait(_, _, _)
RECURSIVE NodeLoop(_, _, _)
RECURSIVE BrowserLoop(_, _, _)

doDispatchLiveNext(items, i, s1) ==
    IF s1.end \in {"throw", "typeerror"}
    THEN [s1 EXCEPT !.threw = TRUE]
    ELSE doDispatchLive(items, i+1, s1)

\* a loop over the stored array of the name instead of the array that
\* getListeners returned
doDispatchLive(items, i, st) ==
    IF i > Len(MapGet(st.world.reg.listeners, st.world.name, <<>>)) THEN st
    ELSE IF StopCheck(st.event) THEN st
    ELSE doDispatchLiveNext(items, i,
            Invoke(MapGet(st.world.reg.listeners, st.world.name, <<>>), i, st))

\* what follows `listener(event)` in doDispatch: an exception leaves the
\* loop and the dispatch, a returned promise is dropped
doDispatchNext(items, i, s1) ==
    IF s1.end \in {"throw", "typeerror"}
    THEN [s1 EXCEPT !.threw = TRUE]
    ELSE IF s1.end = "promise"
         THEN doDispatch(items, i+1,
                [s1 EXCEPT !.made = Append(@, [handled |-> FALSE,
                                               by |-> items[i].listener])])
         ELSE doDispatch(items, i+1, s1)

\* SimpleEventDispatcher.doDispatch: no try/catch, the result of the
\* listener is dropped.
doDispatch(items, i, st) ==
    IF i > Len(items) THEN st
    ELSE IF StopCheck(st.event) THEN st
    ELSE doDispatchNext(items, i, Invoke(items, i, st))

NodeLoopAwaitNext(items, i, s1) ==
    IF s1.end \in {"throw", "typeerror"}
    THEN NodeLoopAwait(items, i+1, [s1 EXCEPT !.sink = @ + 1])
    ELSE IF s1.end = "promise"
         THEN [s1 EXCEPT !.made = Append(@, [handled |-> TRUE,
                                             by |-> items[i].listener])]
         ELSE NodeLoopAwait(items, i+1, s1)

\* a loop that awaits the returned promise does not get past it while it
\* is pending
NodeLoopAwait(items, i, st) ==
    IF i > Len(items) THEN st
    ELSE IF StopCheck(st.event) THEN st
    ELSE NodeLoopAwaitNext(items, i, Invoke(items, i, st))

\* what follows `listener(event)` in the loop of NodeEventDispatcher: the
\* catch block reports an exception, result.catch(...) is attached to a
\* returned promise, and the loop goes on
NodeLoopNext(items, i, s1) ==
    IF s1.end \in {"throw", "typeerror"}
    THEN NodeLoop(items, i+1, [s1 EXCEPT !.sink = @ + 1])
    ELSE IF s1.end = "promise"
         THEN NodeLoop(items, i+1,
                [s1 EXCEPT !.made = Append(@, [handled |-> TRUE,
                                               by |-> items[i].listener])])
         ELSE NodeLoop(items, i+1, s1)

\* the loop of NodeEventDispatcher.dispatch: try/catch around the call,
\* result.catch(...) on a returned promise.
NodeLoop(items, i, st) ==
    IF i > Len(items) THEN st
    ELSE IF StopCheck(st.event) THEN st
    ELSE NodeLoopNext(items, i, Invoke(items, i, st))

\* what follows `listener(event)` in the loop of BrowserEventDispatcher:
\* the catch block reports an exception, a returned promise is dropped,
\* and the loop goes on
BrowserLoopNext(items, i, s1) ==
    IF s1.end \in {"throw", "typeerror"}
    THEN BrowserLoop(items, i+1, [s1 EXCEPT !.sink = @ + 1])
    ELSE IF s1.end = "promise"
         THEN BrowserLoop(items, i+1,
                [s1 EXCEPT !.made = Append(@, [handled |-> FALSE,
                                               by |-> items[i].listener])])
         ELSE BrowserLoop(items, i+1, s1)

\* the loop of BrowserEventDispatcher.dispatch: try/catch around the call,
\* the result of the listener is dropped.
BrowserLoop(items, i, st) ==
    IF i > Len(items) THEN st
    ELSE IF StopCheck(st.event) THEN st
    ELSE BrowserLoopNext(items, i, Invoke(items, i, st))

RunStart(event) == [event |-> event, log |-> <<>>, sink |-> 0, made |-> <<>>,
                    threw |-> FALSE, end |-> "return", world |-> World(Reg)]

\* the loop of the class over the array `items`
Loop(items, st) ==
    CASE impl = "Simple"  -> doDispatch(items, 1, st)
      [] impl = "Node"    -> NodeLoop(items, 1, st)
      [] impl = "Browser" -> BrowserLoop(items, 1, st)

RunListeners(items, event) == Loop(items, RunStart(event))

\* dispatch(event, eventName?) from the lookup on: the lookup may throw,
\* the loop follows it and goes through the array the lookup returned.
RunIn(W, name, event) ==
    LET got == Lookup(W.reg, name)
        st == [RunStart(event) EXCEPT
                 !.world = [W EXCEPT !.reg = got.reg, !.name = name]]
    IN IF got.threw THEN [st EXCEPT !.threw = TRUE]
       ELSE Loop(got.items, st)

\* what the dispatch called in the world W returns to the listener that
\* called it, once its loop has ended as `run` says
Returned(W, run) ==
    [world |-> [run.world EXCEPT !.depth = W.depth, !.name = W.name],
     threw |-> run.threw, sink |-> run.sink, made |-> run.made,
     event |-> run.event]

\* dispatch from `emit` on: em is what the emit did
Emitted(W, name, em) ==
    IF em.threw
    THEN [world |-> W, threw |-> TRUE, sink |-> 0, made |-> <<>>,
          event |-> em.event]
    ELSE IF ~hasListenersIn(W.reg.listeners, name)
    THEN [world |-> W, threw |-> FALSE, sink |-> 0, made |-> <<>>,
          event |-> em.event]
    ELSE Returned(W, RunIn([W EXCEPT !.depth = @ + 1], name, em.event))

\* dispatch(event, eventName?) called by a listener, in the world W
dispatchIn(W, event, eventName) ==
    Emitted(W, ResolveName(event, eventName),
            Emit(ResolveName(event, eventName), event))

Run(R, name, event) ==
    LET run == RunIn(World(R), name, event)
    IN [reg |-> run.world.reg, run |-> run]


Trace(nat, log) ==
    [i \in 1..nat |-> "native"] \o [i \in 1..Len(log) |-> "registry"]

\* dispatch returns: r is what the lookup and the loop did
DispatchRan(event, eventName, name, em, r) ==
    /\ SetReg(r.reg)
    /\ promises' = promises \o r.run.made
    /\ last' = [NoResult EXCEPT !.op = "dispatch", !.name = name,
                  !.arg = eventName,
                  !.kind = IF r.run.threw THEN "void" ELSE "event",
                  !.threw = r.run.threw, !.log = r.run.log,
                  !.sink = r.run.sink, !.made = Len(r.run.made),
                  !.event = r.run.event, !.was = event.stopped,
                  !.trace = Trace(em.nat, r.run.log),
                  !.calls = r.run.world.calls,
                  !.emitted = em.emitted]
    /\ UNCHANGED <<impl, target, subscriberListeners, native>>

\* dispatch from `emit` on: em is what the emit did
DispatchEmitted(event, eventName, name, em) ==
    IF em.threw
    THEN /\ last' = [NoResult EXCEPT !.op = "dispatch", !.name = name,
                       !.arg = eventName, !.threw = TRUE,
                       !.event = em.event, !.was = event.stopped,
                       !.trace = Trace(em.nat, <<>>),
                       !.emitted = em.emitted]
         /\ UNCHANGED <<impl, target, listeners, sorted, keys, subscriberListeners,
                        promises, native>>
    ELSE IF ~hasListeners(name)
    THEN /\ last' = [NoResult EXCEPT !.op = "dispatch", !.name = name,
                       !.arg = eventName, !.kind = "event",
                       !.event = em.event, !.was = event.stopped,
                       !.trace = Trace(em.nat, <<>>),
                       !.emitted = em.emitted]
         /\ UNCHANGED <<impl, target, listeners, sorted, keys, subscriberListeners,
                        promises, native>>
    ELSE DispatchRan(event, eventName, name, em, Run(Reg, name, em.event))

\* dispatch(event, eventName?)
DispatchOf(event, eventName) ==
    DispatchEmitted(event, eventName, ResolveName(event, eventName),
                    Emit(ResolveName(event, eventName), event))

\* getEmitter().on(name, fn) / getEventTarget().addEventListener(name, fn):
\* a listener attached to the native bus directly; kind is what fn does
\* with the event it receives
NativeOn(name, kind) ==
    /\ impl \in {"Node", "Browser"}
    /\ native' = MapSet(native, name, Append(MapGet(native, name, <<>>), kind))
    /\ last' = [NoResult EXCEPT !.op = "on", !.name = name]
    /\ UNCHANGED <<impl, target, listeners, sorted, keys, subscriberListeners, promises,
                   held>>

\* dispatch of an event made for the call
Dispatch(event, eventName) == DispatchOf(event, eventName) /\ UNCHANGED held

\* dispatch of the event the caller keeps: the listeners act on that object
DispatchHeld(eventName) ==
    /\ held.kind = "BaseEvent"
    /\ DispatchOf(held, eventName)
    /\ held' = last'.event

\* A pending promise returned by an async listener settles.  A rejection
\* runs the handler attached with .catch (console.error) if there is one
\* and is an unhandled rejection otherwise.
Settle(i, rejected) ==
    /\ i \in 1..Len(promises)
    /\ promises' = SubSeq(promises, 1, i-1) \o SubSeq(promises, i+1, Len(promises))
    /\ last' = [NoResult EXCEPT !.op = "settle",
                  !.kind = IF ~rejected THEN "fulfilled"
                           ELSE IF promises[i].handled THEN "caught" ELSE "unhandled",
                  !.sink = IF rejected /\ promises[i].handled THEN 1 ELSE 0]
    /\ UNCHANGED <<impl, target, listeners, sorted, keys, subscriberListeners, held,
                   native>>

\* The continuation of the listener "later" behind the pending promise i
\* runs (a microtask, after the dispatch that called the listener has
\* returned): it calls stopPropagation() on the event it was called with,
\* the one the caller keeps, and its promise is fulfilled.
Resume(i) ==
    /\ i \in 1..Len(promises)
    /\ promises[i].by = <<"fn", "later", 0>>
    /\ held.kind = "BaseEvent"
    /\ held' = stopPropagation(held)
    /\ promises' = SubSeq(promises, 1, i-1) \o SubSeq(promises, i+1, Len(promises))
    /\ last' = [NoResult EXCEPT !.op = "resume", !.kind = "fulfilled",
                  !.was = isPropagationStopped(held),
                  !.event = stopPropagation(held)]
    /\ UNCHANGED <<impl, target, listeners, sorted, keys, subscriberListeners, native>>

\* ------------------------------------------------ UniversalEventEmitter
\* `this.isNodeEnvironment = typeof window === 'undefined'`: the
\* environment is the one createEventDispatcher chose the class for; only
\* a browser has a window.
isNodeEnvironment == impl # "Browser"

\* target holds the listeners of this.target in the order they were
\* attached: name, the function attached (fn), the handler that function
\* calls, and whether it was attached to run once.  A new arrow function
\* is a function that is attached nowhere yet.
Wrapper(handler) ==
    <<"wrap", handler[2],
      CHOOSE k \in 1..(Len(target) + 1) :
         \A i \in 1..Len(target) : target[i].fn # <<"wrap", handler[2], k>>>>

Attach(eventName, handler, once) ==
    Append(target, [name |-> eventName, handler |-> handler, once |-> once,
                    fn |-> IF isNodeEnvironment THEN handler
                           ELSE Wrapper(handler)])

\* on(eventName, handler)
On(eventName, handler) ==
    /\ target' = Attach(eventName, handler, FALSE)
    /\ last' = [NoResult EXCEPT !.op = "emitter.on", !.name = eventName,
                  !.cb = handler]
    /\ UNCHANGED <<impl, listeners, sorted, keys, subscriberListeners, promises,
                   held, native>>

\* once(eventName, handler)
Once(eventName, handler) ==
    /\ target' = Attach(eventName, handler, TRUE)
    /\ last' = [NoResult EXCEPT !.op = "emitter.once", !.name = eventName,
                  !.cb = handler]
    /\ UNCHANGED <<impl, listeners, sorted, keys, subscriberListeners, promises,
                   held, native>>

\* EventEmitter.off(name, fn) removes the listener attached last among
\* those whose function (or, for once, whose wrapped listener) is fn;
\* removeEventListener(name, fn) removes the listener whose callback is fn.
Detach(T, eventName, f) ==
    LET hits == {i \in 1..Len(T) :
                   /\ T[i].name = eventName
                   /\ IF isNodeEnvironment THEN T[i].handler = f ELSE T[i].fn = f}
    IN IF hits = {} THEN T
       ELSE LET i == CHOOSE j \in hits : \A k \in hits : k <= j
            IN SubSeq(T, 1, i-1) \o SubSeq(T, i+1, Len(T))

\* off(eventName, handler): the handler itself is what is passed on
Off(eventName, handler) ==
    /\ target' = Detach(target, eventName, handler)
    /\ last' = [NoResult EXCEPT !.op = "emitter.off", !.name = eventName,
                  !.cb = handler]
    /\ UNCHANGED <<impl, listeners, sorted, keys, subscriberListeners, promises,
                   held, native>>

\* emit(eventName, data): the listeners of the name run in the order they
\* were attached, those attached to run once are gone afterwards
EmitData(eventName) ==
    /\ target' = SelectSeq(target, LAMBDA l : ~(l.name = eventName /\ l.once))
    /\ last' = [NoResult EXCEPT !.op = "emitter.emit", !.name = eventName,
                  !.list = LET hit == SelectSeq(target,
                                                LAMBDA l : l.name = eventName)
                           IN [i \in 1..Len(hit) |-> hit[i].handler]]
    /\ UNCHANGED <<impl, listeners, sorted, keys, subscriberListeners, promises,
                   held, native>>

\* ---------------------------------------------------- subscriber adapter
\* every function that is still referenced by the registry or by the
\* retained bindings; Function.prototype.bind returns one that is none of
\* them.
RECURSIVE LiveIn(_, _)
LiveIn(L, S) ==
    IF S = {} THEN {}
    ELSE LET n == CHOOSE x \in S : TRUE
         IN {L[n][i].listener : i \in 1..Len(L[n])} \cup LiveIn(L, S \ {n})

RECURSIVE BoundIn(_, _)
BoundIn(B, S) ==
    IF S = {} THEN {}
    ELSE LET s == CHOOSE x \in S : TRUE
         IN {B[s][i].listener : i \in 1..Len(B[s])} \cup BoundIn(B, S \ {s})

Bind(subscriber, listenerName, used) ==
    <<subscriber, listenerName,
      CHOOSE k \in 1..(Cardinality(used) + 1) :
         /\ <<subscriber, listenerName, k>> \notin used
         /\ \A j \in 1..(k-1) : <<subscriber, listenerName, j>> \in used>>

\* a loop that passes no priority to addListener
SubscribedPriorityZero(params) == 0

\* priority of one entry of getSubscribedEvents(): 0 for a bare method
\* name, `params.priority ?? 0` for a descriptor.
SubscribedPriority(params) ==
    IF params.bare THEN 0
    ELSE IF ~params.given THEN 0 ELSE params.priority

\* the for loop of addSubscriber over Object.entries(events);
\* subscriber[listenerName].bind(subscriber) throws a TypeError when the
\* subscriber has no such method, and the exception leaves addSubscriber.
RECURSIVE addSubscriberLoop(_, _, _, _)
addSubscriberLoop(subscriber, events, i, st) ==
    IF i > Len(events) THEN st
    ELSE LET params == events[i]
             boundListener == Bind(subscriber, params.listener, st.used)
         IN IF params.listener \notin Methods(subscriber)
            THEN [st EXCEPT !.threw = TRUE]
            ELSE addSubscriberLoop(subscriber, events, i+1,
                   [reg |-> addListenerTo(st.reg, params.name, boundListener,
                                          SubscribedPriority(params)),
                    bound |-> Append(st.bound, [name |-> params.name,
                                                listener |-> boundListener]),
                    used |-> st.used \cup {boundListener},
                    threw |-> FALSE])

\* addSubscriber(subscriber)
AddSubscriber(subscriber) ==
    LET st == addSubscriberLoop(subscriber, getSubscribedEvents(subscriber), 1,
                [reg |-> Reg, bound |-> <<>>, threw |-> FALSE,
                 used |-> LiveIn(listeners, DOMAIN listeners)
                          \cup BoundIn(subscriberListeners, DOMAIN subscriberListeners)])
    IN /\ SetReg(st.reg)
       /\ subscriberListeners' =
             IF st.threw THEN subscriberListeners
             ELSE MapSet(subscriberListeners, subscriber, st.bound)
       /\ last' = [NoResult EXCEPT !.op = "addSubscriber", !.name = subscriber,
                     !.threw = st.threw,
                     !.keys = {n \in Names : hasListeners(n)}]
       /\ UNCHANGED <<impl, target, promises, held, native>>

\* a loop that stops after the first retained pair
RECURSIVE removeSubscriberFirst(_, _, _)
removeSubscriberFirst(boundListeners, i, st) ==
    IF i > 1 \/ i > Len(boundListeners) THEN st
    ELSE removeSubscriberFirst(boundListeners, i+1,
           removeListenerFrom(st, boundListeners[i].name, boundListeners[i].listener))

\* a loop that clears the whole name of each retained pair
RECURSIVE removeSubscriberAll(_, _, _)
removeSubscriberAll(boundListeners, i, st) ==
    IF i > Len(boundListeners) THEN st
    ELSE removeSubscriberAll(boundListeners, i+1,
           [listeners |-> MapDelete(st.listeners, boundListeners[i].name),
            sorted |-> MapDelete(st.sorted, boundListeners[i].name),
            keys |-> Without(st.keys, boundListeners[i].name)])

\* the for loop of removeSubscriber over the retained Map
RECURSIVE removeSubscriberLoop(_, _, _)
removeSubscriberLoop(boundListeners, i, st) ==
    IF i > Len(boundListeners) THEN st
    ELSE removeSubscriberLoop(boundListeners, i+1,
           removeListenerFrom(st, boundListeners[i].name, boundListeners[i].listener))

\* removeSubscriber(subscriber)
RemoveSubscriber(subscriber) ==
    /\ IF ~Has(subscriberListeners, subscriber)
       THEN UNCHANGED <<listeners, sorted, keys, subscriberListeners>>
       ELSE LET st == removeSubscriberLoop(subscriberListeners[subscriber], 1, Reg)
            IN /\ SetReg(st)
               /\ subscriberListeners' = MapDelete(subscriberListeners, subscriber)
    /\ last' = [NoResult EXCEPT !.op = "removeSubscriber", !.name = subscriber,
                  !.found = Has(subscriberListeners, subscriber),
                  !.was = (last.op = "addSubscriber" /\ last.name = subscriber),
                  !.keys = last.keys]
    /\ native' = NativeAfter(listeners, listeners')
    /\ UNCHANGED <<impl, target, promises, held>>

\* ------------------------------------------------------- specifications
Made(event, eventName) ==
    LET name == ResolveName(event, eventName)
    IN IF Emit(name, event).threw \/ ~hasListeners(name) THEN 0
       ELSE Len(Run(Reg, name, Emit(name, event).event).run.made)

\* the names passed to dispatch: null for the class name of the event.
\* Next also dispatches under "error", a name that never has listeners.
DispatchNames == Names \cup {Null}

Next ==
    \/ \E n \in Names, l \in Fns, p \in Priorities :
          TotalEntries(listeners) < MaxEntries /\ AddListener(n, l, p)
    \/ \E n \in Names, l \in Fns : RemoveListener(n, l)
    \/ \E n \in Names \cup {Null} : GetListeners(n)
    \/ \E n \in Names : GetListenerPriority(n, <<"fn", "ok", 0>>)
    \/ \E e \in Events, n \in DispatchNames :
          Len(promises) + Made(e, n) <= MaxPendingAll /\ Dispatch(e, n)
    \/ Dispatch(NewEvent, "error")
    \/ \E i \in 1..MaxPendingAll, r \in BOOLEAN : Settle(i, r)
    \/ \E s \in Subscribers :
          /\ TotalEntries(listeners) + Len(getSubscribedEvents(s)) <= MaxEntries
          /\ AddSubscriber(s)
    \/ \E s \in Subscribers : RemoveSubscriber(s)

Spec == Init /\ [][Next]_vars

\* the dispatch loop on one name
NextDispatch ==
    \/ \E l \in Fns, p \in Priorities :
          TotalEntries(listeners) < MaxEntries /\ AddListener("BaseEvent", l, p)
    \/ \E l \in Fns : RemoveListener("BaseEvent", l)
    \/ \E e \in Events, n \in {"BaseEvent", Null} :
          Len(promises) + Made(e, n) <= MaxPending /\ Dispatch(e, n)
    \/ \E i \in 1..MaxPending, r \in BOOLEAN : Settle(i, r)

SpecDispatch == Init /\ [][NextDispatch]_vars

\* the registry and the subscriber adapter
NextRegistry ==
    \/ \E n \in Names, l \in {<<"fn", "ok", 0>>}, p \in Priorities :
          TotalEntries(listeners) < MaxRegistry /\ AddListener(n, l, p)
    \/ \E n \in Names, l \in {<<"fn", "ok", 0>>, <<"fn", "stop", 0>>} : RemoveListener(n, l)
    \/ \E n \in Names \cup {Null} : GetListeners(n)
    \/ \E n \in Names, l \in {<<"fn", "ok", 0>>, <<"fn", "stop", 0>>} :
          GetListenerPriority(n, l)
    \/ \E n \in Names, l \in {<<"fn", "ok", 0>>} :
          TotalEntries(listeners) < MaxRegistry /\ AddListenerDefault(n, l)
    \/ \E s \in Subscribers :
          /\ TotalEntries(listeners) + Len(getSubscribedEvents(s)) <= MaxRegistry
          /\ AddSubscriber(s)
    \/ \E s \in Subscribers : RemoveSubscriber(s)

SpecRegistry == Init /\ [][NextRegistry]_vars

\* priority order on one name
OrderFns == {<<"fn", "ok", 0>>, <<"fn", "stop", 0>>}
OrderPriorities == {0, 5, 10}

NextOrder ==
    \/ \E l \in OrderFns, p \in OrderPriorities :
          /\ TotalEntries(listeners) < MaxOrder
          /\ AddListener("BaseEvent", l, p)
    \/ \E l \in OrderFns : RemoveListener("BaseEvent", l)
    \/ GetListeners("BaseEvent")
    \/ \E e \in Events : Dispatch(e, "BaseEvent")

SpecOrder == Init /\ [][NextOrder]_vars

\* one BaseEvent through constructions, stops, queries and dispatches
NextEvent ==
    \/ NewBaseEvent
    \/ StopPropagation
    \/ IsPropagationStopped
    \/ \E n \in {"BaseEvent", Null} : DispatchHeld(n)
    \/ \E l \in OrderFns, p \in Priorities :
          /\ TotalEntries(listeners) < MaxEntries
          /\ AddListener("BaseEvent", l, p)
    \/ \E l \in OrderFns : RemoveListener("BaseEvent", l)

SpecEvent == Init /\ [][NextEvent]_vars

\* the native bridge: listeners attached to the emitter / EventTarget
NativeKinds == {"ok", "stop", "throw"}

TotalNative ==
    LET RECURSIVE Sum(_)
        Sum(S) == IF S = {} THEN 0
                  ELSE LET n == CHOOSE x \in S : TRUE
                       IN Len(native[n]) + Sum(S \ {n})
    IN Sum(DOMAIN native)

NextNative ==
    \/ \E l \in OrderFns, p \in Priorities :
          /\ TotalEntries(listeners) < MaxEntries
          /\ AddListener("BaseEvent", l, p)
    \/ \E l \in OrderFns : RemoveListener("BaseEvent", l)
    \/ \E k \in NativeKinds : TotalNative < MaxNative /\ NativeOn("BaseEvent", k)
    \/ \E e \in Events : Dispatch(e, Null)

SpecNative == Init /\ [][NextNative]_vars

\* listeners that call addListener / removeListener while they run
EditFns == {<<"fn", "ok", 0>>, <<"edit", "add", 0>>, <<"edit", "remove", 0>>}

NextReentrant ==
    \/ \E l \in EditFns, p \in Priorities :
          /\ TotalEntries(listeners) < MaxReentrant
          /\ AddListener(EditName, l, p)
    \/ \E l \in EditFns : RemoveListener(EditName, l)
    \/ /\ TotalEntries(Run(Reg, EditName, NewEvent).reg.listeners) <= MaxReentrant
       /\ Dispatch(NewEvent, EditName)

SpecReentrant == Init /\ [][NextReentrant]_vars

\* listeners that call dispatch while they run, under the name they are
\* registered under or under another one
NestedNames == {"BaseEvent", "Inner"}
OuterFns == {<<"fn", "ok", 0>>, <<"fn", "stop", 0>>,
             <<"nest", "Inner", 0>>, <<"nest", "BaseEvent", 0>>}
InnerFns == {<<"fn", "ok", 0>>, <<"fn", "stop", 0>>, <<"fn", "throw", 0>>}

NextNested ==
    \/ \E l \in OuterFns, p \in Priorities :
          /\ TotalEntries(listeners) < MaxNested
          /\ AddListener("BaseEvent", l, p)
    \/ \E l \in InnerFns :
          /\ TotalEntries(listeners) < MaxNested
          /\ AddListenerDefault("Inner", l)
    \/ \E l \in OuterFns : RemoveListener("BaseEvent", l)
    \/ Dispatch(NewEvent, "BaseEvent")

SpecNested == Init /\ [][NextNested]_vars

\* async listeners that stop the event after their first await; the
\* caller makes a new event when no listener is suspended on the old one
LaterFns == {<<"fn", "ok", 0>>, <<"fn", "stop", 0>>, <<"fn", "throw", 0>>,
             <<"fn", "later", 0>>}

NextLater ==
    \/ promises = <<>> /\ NewBaseEvent
    \/ \E l \in LaterFns, p \in Priorities :
          /\ TotalEntries(listeners) < MaxEntries
          /\ AddListener("BaseEvent", l, p)
    \/ \E l \in LaterFns : RemoveListener("BaseEvent", l)
    \/ /\ held.kind = "BaseEvent"
       /\ Len(promises) + Made(held, "BaseEvent") <= MaxPending
       /\ DispatchHeld("BaseEvent")
    \/ \E i \in 1..MaxPending : Resume(i)

SpecLater == Init /\ [][NextLater]_vars

\* a subscriber whose getSubscribedEvents() names a method it lacks
BrokenSubscribers == {"s2", "s3"}

NextBroken ==
    \/ \E p \in Priorities :
          /\ TotalEntries(listeners) < MaxRegistry
          /\ AddListener("BaseEvent", <<"fn", "ok", 0>>, p)
    \/ RemoveListener("BaseEvent", <<"fn", "ok", 0>>)
    \/ \E s \in BrokenSubscribers :
          /\ TotalEntries(listeners) + Len(getSubscribedEvents(s)) <= MaxRegistry
          /\ AddSubscriber(s)
    \/ \E s \in BrokenSubscribers : RemoveSubscriber(s)

SpecBroken == Init /\ [][NextBroken]_vars

\* UniversalEventEmitter
Handlers == {<<"fn", "h1", 0>>, <<"fn", "h2", 0>>}
EmitterNames == {"evt", "other"}

NextEmitter ==
    \/ \E n \in EmitterNames, h \in Handlers :
          Len(target) < MaxTarget /\ On(n, h)
    \/ \E n \in EmitterNames, h \in Handlers :
          Len(target) < MaxTarget /\ Once(n, h)
    \/ \E n \in EmitterNames, h \in Handlers : Off(n, h)
    \/ \E n \in EmitterNames : EmitData(n)

SpecEmitter == Init /\ [][NextEmitter]_vars

\* ---------------------------------------------------------------- claims
Entries(name) == IF Has(listeners, name)
                 THEN {listeners[name][i] : i \in 1..Len(listeners[name])}
                 ELSE {}

Logged == {last.log[i] : i \in 1..Len(last.log)}

\* a is to be invoked before b: higher priority first, registration order
\* among equal priorities
Before(a, b) ==
    \/ a.priority > b.priority
    \/ a.priority = b.priority /\ a.reg < b.reg

\* the loop went through the whole sequence: the event is not stopped and
\* no exception left dispatch
RanToEnd == ~StopCheck(last.event) /\ ~last.threw

\* C1: a dispatch invokes registered listeners only, each after every
\* registered listener of higher priority and every earlier registered
\* listener of the same priority (none of which it skips), whatever adds,
\* removals and lookups came before; a loop that ran to the end of the
\* sequence of a name invoked all of its listeners.
C1_PriorityOrder ==
    last.op = "dispatch" =>
        /\ Logged \subseteq Entries(last.name)
        /\ Len(last.log) = Cardinality(Logged)
        /\ \A i, j \in 1..Len(last.log) : i < j => Before(last.log[i], last.log[j])
        /\ \A e \in Entries(last.name), f \in Logged : Before(e, f) => e \in Logged
        /\ (Truthy(last.name) /\ RanToEnd) => Logged = Entries(last.name)

\* three listeners were invoked, not in the order of their registration,
\* two of them with the same priority
C1_Witness ==
    /\ last.op = "dispatch"
    /\ Len(last.log) = 3
    /\ last.log[1].reg = 3
    /\ last.log[2].priority = last.log[3].priority
    /\ last.log[1].priority > last.log[2].priority

StopFn == <<"fn", "stop", 0>>
AsyncFn == <<"fn", "async", 0>>

\* the sequence the dispatch went through (the lookup sorted it in place)
Sequence == IF Has(listeners, last.name) THEN listeners[last.name] ELSE <<>>

\* C2: when the listener at position k of the sorted sequence stops the
\* event, the listeners invoked are exactly those at positions 1..k and
\* the event is stopped at the end of dispatch.
C2_StopPropagation ==
    (last.op = "dispatch" /\ last.event.kind = "BaseEvent") =>
        \A k \in 1..Len(last.log) :
            /\ last.log[k] = Sequence[k]
            /\ last.log[k].listener = StopFn =>
                  /\ Len(last.log) = k
                  /\ last.event.stopped

\* the first listener stopped an event that came in not stopped and the
\* listener behind it was not invoked
C2_Witness ==
    /\ last.op = "dispatch"
    /\ ~last.was
    /\ last.event.stopped
    /\ ~last.threw
    /\ Len(last.log) = 1
    /\ last.log[1].listener = StopFn
    /\ Len(Sequence) > 1

\* C3: a listener that throws does not keep the listeners behind it from
\* being invoked: unless the event is stopped, every listener of the name
\* is invoked.
C3_ListenerIsolation ==
    (last.op = "dispatch" /\ Truthy(last.name) /\ ~StopCheck(last.event)) =>
        Len(last.log) = Len(Sequence)

\* C4: dispatch completes normally and returns the event it was given,
\* whatever the listeners of the name do.
C4_DispatchReturns ==
    (last.op = "dispatch" /\ Truthy(last.name) /\ Entries(last.name) # {}) =>
        (~last.threw /\ last.kind = "event")

\* the listener invocations of the last dispatch that threw
Threw(i) == Call(last.log[i].listener,
                 [kind |-> last.event.kind, stopped |-> FALSE]).end = "throw"

\* C5: console.error is called once for each listener invocation that
\* throws and not for the others.
C5_SinkOncePerFailure ==
    (last.op = "dispatch" /\ Truthy(last.name)) =>
        last.sink = Cardinality({i \in 1..Len(last.log) : Threw(i)})

\* C6: an async listener is followed by the next listener of the sequence,
\* and the promises of the async listeners invoked are pending when the
\* dispatch is over.
C6_NoAwait ==
    last.op = "dispatch" =>
        /\ \A k \in 1..Len(last.log) :
              (last.log[k].listener = AsyncFn /\ k < Len(Sequence)) =>
                  Len(last.log) > k
        /\ last.made = Cardinality({k \in 1..Len(last.log) :
                                       last.log[k].listener = AsyncFn})
        /\ Len(promises) >= last.made

\* an async listener was invoked first, the listener behind it was invoked
\* too, dispatch returned and the promise is pending
C6_Witness ==
    /\ last.op = "dispatch"
    /\ ~last.threw
    /\ Len(last.log) = 2
    /\ last.log[1].listener = AsyncFn
    /\ last.log[2].listener # AsyncFn
    /\ last.made = 1
    /\ Len(promises) >= 1

\* C7: the rejection of a promise returned by an async listener reaches
\* console.error and is never left unhandled.
C7_RejectionReported ==
    last.op = "settle" => last.kind \in {"fulfilled", "caught"}

\* C8: removeListener of a callback that is not registered under the name
\* (never registered, already removed, unknown name) does not throw and
\* changes nothing of the registry.
C8_RemoveAbsentNoop ==
    [][(last'.op = "removeListener" /\ ~last'.found) =>
          (listeners' = listeners /\ sorted' = sorted /\ keys' = keys
           /\ ~last'.threw)]_vars

\* removeListener did not find the callback under a name that has
\* listeners
C8_Witness ==
    /\ last.op = "removeListener"
    /\ ~last.found
    /\ Has(listeners, last.name)
    /\ Cardinality(DOMAIN listeners) = 2

\* C9: after removeListener removed the last entry of a name,
\* hasListeners(name) is false and the name is no key of the registry; if
\* no name is left, hasListeners() is false.
C9_EmptyNameCleanup ==
    (last.op = "removeListener" /\ last.found /\ Entries(last.name) = {}) =>
        /\ ~hasListeners(last.name)
        /\ ~Has(listeners, last.name)
        /\ (DOMAIN listeners = {} => ~hasListeners(Null))

SubscribedNames(s) ==
    {getSubscribedEvents(s)[i].name : i \in 1..Len(getSubscribedEvents(s))}

\* C10: addSubscriber(s) directly followed by removeSubscriber(s) leaves
\* hasListeners(name) as it was before the add, for every name s
\* subscribes to.
C10_SubscriberSymmetry ==
    (last.op = "removeSubscriber" /\ last.was) =>
        \A n \in SubscribedNames(last.name) : hasListeners(n) = (n \in last.keys)

\* s1 was added and directly removed while independent listeners and the
\* listeners of another subscriber were registered
C10_Witness ==
    /\ last.op = "removeSubscriber"
    /\ last.was
    /\ last.name = "s1"
    /\ "BaseEvent" \in last.keys
    /\ hasListeners("BaseEvent")
    /\ ~Has(listeners, "")
    /\ Has(subscriberListeners, "s2")

\* callback and priority of each entry, in the stored order
Plain(arr) == [i \in 1..Len(arr) |-> <<arr[i].listener, arr[i].priority>>]

\* the entries that were not made for subscriber s
NotOf(arr, s) == SelectSeq(Plain(arr), LAMBDA e : e[1][1] # s)

\* C11: removeSubscriber(s) does not throw; for a subscriber with a
\* retained record the entries not bound to s keep callback, priority and
\* relative order under every name and the sort flags of the names that
\* remain are as before; for a subscriber without a record (never added,
\* already removed) registry and records are unchanged.
C11_RemoveSubscriberFrame ==
    [][last'.op = "removeSubscriber" =>
          /\ ~last'.threw
          /\ IF last'.found
             THEN /\ DOMAIN listeners' \subseteq DOMAIN listeners
                  /\ \A n \in DOMAIN listeners :
                        NotOf(MapGet(listeners', n, <<>>), last'.name) =
                        NotOf(listeners[n], last'.name)
                  /\ \A n \in DOMAIN listeners' : sorted'[n] = sorted[n]
             ELSE /\ listeners' = listeners
                  /\ sorted' = sorted
                  /\ keys' = keys
                  /\ subscriberListeners' = subscriberListeners]_vars

\* s2 was removed from a name under which two independent listeners stay,
\* the one of lower priority in front
C11_Witness ==
    /\ last.op = "removeSubscriber"
    /\ last.found
    /\ last.name = "s2"
    /\ Has(listeners, "BaseEvent")
    /\ Len(listeners["BaseEvent"]) = 2
    /\ listeners["BaseEvent"][1].listener[1] = "fn"
    /\ listeners["BaseEvent"][2].listener[1] = "fn"
    /\ listeners["BaseEvent"][1].priority < listeners["BaseEvent"][2].priority

\* the callbacks in the registry that were bound to subscriber s
BoundTo(s) == {cb \in LiveIn(listeners, DOMAIN listeners) : cb[1] = s}

\* C12: after removeSubscriber(s) no callback made by an earlier
\* addSubscriber(s) is left in the registry, also when addSubscriber(s)
\* was called more than once.
C12_RemovesAllOfSubscriber ==
    last.op = "removeSubscriber" => BoundTo(last.name) = {}

\* the entries of s.getSubscribedEvents() for the name n, in their order
SubscribedTo(s, n) == SelectSeq(getSubscribedEvents(s), LAMBDA e : e.name = n)

\* the priority an entry of getSubscribedEvents() asks for
AskedPriority(e) == IF e.bare \/ ~e.given THEN 0 ELSE e.priority

\* C13: addSubscriber(s) appends, under each name, one entry per entry of
\* s.getSubscribedEvents() for that name and nothing else: its callback is
\* a new function bound to the method named, its priority is the one of
\* the descriptor, or 0 for a bare method name or a descriptor without
\* priority; the next lookup of the name returns the subscriber's listener
\* behind every listener of higher priority and in front of every listener
\* of lower priority.
C13_SubscriberRegistration ==
    [][last'.op = "addSubscriber" =>
          /\ \A n \in Names :
                LET old == Plain(MapGet(listeners, n, <<>>))
                    new == Plain(MapGet(listeners', n, <<>>))
                    mine == SubscribedTo(last'.name, n)
                IN /\ Len(new) = Len(old) + Len(mine)
                   /\ SubSeq(new, 1, Len(old)) = old
                   /\ \A i \in 1..Len(mine) :
                         LET e == new[Len(old) + i]
                         IN /\ e[1][1] = last'.name
                            /\ e[1][2] = mine[i].listener
                            /\ e[1] \notin LiveIn(listeners, DOMAIN listeners)
                            /\ e[2] = AskedPriority(mine[i])
          /\ DOMAIN listeners' \subseteq Names
          /\ \A n \in DOMAIN listeners' :
                Truthy(n) =>
                   LET lst == getListenersOf(Reg', n).reg.listeners[n]
                   IN \A i, j \in 1..Len(lst) : i < j => Before(lst[i], lst[j])]_vars

\* s1 was added with priority 5 under a name that had an independent
\* listener of priority 0, which is in front of it until the next lookup
C13_Witness ==
    /\ last.op = "addSubscriber"
    /\ last.name = "s1"
    /\ Has(listeners, "BaseEvent")
    /\ Len(listeners["BaseEvent"]) = 2
    /\ listeners["BaseEvent"][1].listener[1] = "fn"
    /\ listeners["BaseEvent"][1].priority = 0
    /\ listeners["BaseEvent"][2].listener[1] = "s1"
    /\ listeners["BaseEvent"][2].priority = 5
    /\ getListenersOf(Reg, "BaseEvent").list[1][1] = "s1"

\* the stored sequence of a name is in the order a lookup has to return
Ordered(arr) == \A i, j \in 1..Len(arr) : i < j => Before(arr[i], arr[j])

\* C14: getListeners(name) returns the callbacks of the entries registered
\* under name, by descending priority and registration order among equal
\* priorities (the empty sequence for a name without entries);
\* getListeners() returns a Map whose keys are the names that have
\* entries, each with that sequence.
C14_GetListenersExact ==
    last.op = "getListeners" =>
        IF last.name # Null
        THEN /\ last.kind = "list"
             /\ last.list = MapListener(MapGet(listeners, last.name, <<>>))
             /\ Ordered(MapGet(listeners, last.name, <<>>))
        ELSE /\ ~last.threw
             /\ last.kind = "map"
             /\ last.keys = {n \in Names : Entries(n) # {}}
             /\ \A n \in last.keys : Ordered(listeners[n])

\* the priorities with which cb is registered under name
RegisteredWith(name, cb) == {e.priority : e \in {x \in Entries(name) : x.listener = cb}}

\* C15: getListenerPriority(name, cb) returns a priority with which cb is
\* registered under name (0 for a registration without priority), and null
\* when the name is unknown or cb is not registered under it, whatever is
\* registered under other names.
C15_ListenerPriority ==
    last.op = "getListenerPriority" =>
        IF RegisteredWith(last.name, last.cb) = {}
        THEN last.kind = "null"
        ELSE /\ last.kind = "number"
             /\ last.priority \in RegisteredWith(last.name, last.cb)

\* the priority 0 was returned for a callback that another name holds
\* with priority 5
C15_Witness ==
    /\ last.op = "getListenerPriority"
    /\ last.kind = "number"
    /\ last.priority = 0
    /\ \E n \in Names \ {last.name} : RegisteredWith(n, last.cb) = {5}

\* C16: hasListeners(name) is true exactly when an entry is registered
\* under name, hasListeners() exactly when some name has an entry.
C16_HasListenersExact ==
    /\ \A n \in Names : hasListeners(n) <=> Entries(n) # {}
    /\ hasListeners(Null) <=> \E n \in Names : Entries(n) # {}

\* C17: dispatch(event, name) for a name without registered listeners
\* invokes no listener, does not throw, returns the event and leaves the
\* registry as it was.
C17_DispatchNoListeners ==
    [][(last'.op = "dispatch" /\ MapGet(listeners, last'.name, <<>>) = <<>>) =>
          /\ ~last'.threw
          /\ last'.kind = "event"
          /\ last'.log = <<>>
          /\ last'.sink = 0
          /\ listeners' = listeners
          /\ sorted' = sorted
          /\ keys' = keys]_vars

\* C18: dispatch(event, eventName) uses eventName when it is supplied and
\* the class name of the event when it is omitted or null; it invokes no
\* listener of another name, and unless the event is stopped or a
\* listener throws it invokes every listener of that name.
C18_NameResolution ==
    last.op = "dispatch" =>
        /\ last.name = (IF last.arg = Null THEN last.event.kind ELSE last.arg)
        /\ Logged \subseteq Entries(last.name)
        /\ (~StopCheck(last.event) /\ ~\E i \in 1..Len(last.log) : Threw(i)) =>
              Logged = Entries(last.name)

\* C19: the flag of a BaseEvent is false when it is constructed and true
\* after stopPropagation(); once true it stays true through every
\* stopPropagation(), isPropagationStopped() and dispatch of that event,
\* and stopPropagation() on a stopped event changes nothing;
\* isPropagationStopped() returns the flag and changes nothing.
C19_StopFlagMonotonic ==
    [][/\ last'.op = "new" => ~isPropagationStopped(held')
       /\ last'.op = "stopPropagation" => isPropagationStopped(held')
       /\ (last'.op = "stopPropagation" /\ held.stopped) => held' = held
       /\ last'.op = "isPropagationStopped" =>
             (held' = held /\ last'.was = held.stopped)
       /\ (held.stopped /\ last'.op # "new") => held'.stopped]_vars

\* stopPropagation() was called on an event that was stopped already, with
\* listeners registered under its class name
C19_Witness ==
    /\ last.op = "stopPropagation"
    /\ last.was
    /\ held.stopped
    /\ Has(listeners, "BaseEvent")

\* how many entries of name n in L hold the callback cb
Count(L, n, cb) ==
    Cardinality({i \in 1..Len(MapGet(L, n, <<>>)) : L[n][i].listener = cb})

\* how often cb occurs in a sequence of callbacks
Occurs(seq, cb) == Cardinality({i \in 1..Len(seq) : seq[i] = cb})

\* C20: every addListener adds one entry for its callback, also when the
\* name already holds that callback; getListeners(name) contains a
\* callback as often as it is registered; a dispatch that runs to the end
\* invokes it as often, each time at the position of that entry's
\* priority; one removeListener takes exactly one of its entries away.
C20_DuplicateEntries ==
    [][/\ last'.op = "addListener" =>
             Count(listeners', last'.name, last'.cb) =
             Count(listeners, last'.name, last'.cb) + 1
       /\ (last'.op = "removeListener" /\ last'.found) =>
             Count(listeners', last'.name, last'.cb) =
             Count(listeners, last'.name, last'.cb) - 1
       /\ (last'.op = "getListeners" /\ last'.kind = "list") =>
             \A cb \in Fns :
                Occurs(last'.list, cb) = Count(listeners', last'.name, cb)
       /\ (last'.op = "dispatch" /\ ~StopCheck(last'.event) /\ ~last'.threw) =>
             /\ \A cb \in Fns :
                   Occurs(MapListener(last'.log), cb) =
                   Count(listeners', last'.name, cb)
             /\ Ordered(last'.log)]_vars

\* one dispatch invoked the same callback first and third, with another
\* listener between its two entries
C20_Witness ==
    /\ last.op = "dispatch"
    /\ ~last.threw
    /\ Len(last.log) = 3
    /\ last.log[1].listener = last.log[3].listener
    /\ last.log[2].listener # last.log[1].listener
    /\ last.log[1].priority > last.log[3].priority

\* how often a dispatch invoked the entry e
Invocations(e) == Cardinality({i \in 1..Len(last.log) : last.log[i] = e})

\* C21: one dispatch of an event that is not stopped invokes every entry
\* registered under the resolved name exactly once, in each of the three
\* classes; no entry is invoked a second time through the native emitter
\* or EventTarget.
C21_InvokedExactlyOnce ==
    (last.op = "dispatch" /\ Truthy(last.name) /\ ~StopCheck(last.event)) =>
        \A e \in Entries(last.name) : Invocations(e) = 1

\* the lowest index of the stored sequence whose entry holds cb
FirstMatch(arr, cb) ==
    CHOOSE i \in 1..Len(arr) :
        /\ arr[i].listener = cb
        /\ \A j \in 1..Len(arr) : arr[j].listener = cb => i <= j

\* the sequence without its element at index i
Dropped(arr, i) == SubSeq(arr, 1, i-1) \o SubSeq(arr, i+1, Len(arr))

\* C22: removeListener(name, cb) with cb registered under name removes
\* one entry, the first of the stored sequence that holds cb; the other
\* entries of the name, those with the same callback included, keep
\* priority and relative order; the other names keep their entries; the
\* name is deleted exactly when the removal emptied its sequence.
C22_RemoveFirstMatch ==
    [][(last'.op = "removeListener" /\ last'.found) =>
          LET n == last'.name
              arr == listeners[n]
          IN /\ Plain(MapGet(listeners', n, <<>>)) =
                   Plain(Dropped(arr, FirstMatch(arr, last'.cb)))
             /\ Has(listeners', n) <=> Len(arr) > 1
             /\ \A m \in (DOMAIN listeners) \ {n} :
                   Has(listeners', m) /\ listeners'[m] = listeners[m]]_vars

\* a removal took one of two entries of a callback and left the other
\* with another entry in the sequence
C22_Witness ==
    /\ last.op = "removeListener"
    /\ last.found
    /\ Has(listeners, last.name)
    /\ Len(listeners[last.name]) = 2
    /\ Count(listeners, last.name, last.cb) = 1

\* the name is in the state "sorted"
IsSorted(S, n) == MapGet(S, n, FALSE)

\* the state "sorted" is entered by the sort step of a lookup only
SortedByLookupOnly ==
    \A n \in DOMAIN sorted' :
        (IsSorted(sorted', n) /\ ~IsSorted(sorted, n)) =>
            /\ last'.op \in {"getListeners", "dispatch"}
            /\ Ordered(listeners'[n])

\* C23 as stated: every addListener and every removeListener on a name
\* puts the name into the state "unsorted", and only the sort step of a
\* lookup puts it into the state "sorted".
C23_SortStateMachine ==
    [][/\ last'.op \in {"addListener", "removeListener"} =>
             ~IsSorted(sorted', last'.name)
       /\ SortedByLookupOnly]_vars

\* C23, amended: every addListener puts the name into the state
\* "unsorted"; a removeListener leaves the flag of a name that keeps
\* entries as it was and deletes it with a name it emptied; only the sort
\* step of a lookup puts a name into the state "sorted", and a lookup of
\* a name with entries leaves it there.
C23_SortFlag ==
    [][/\ last'.op = "addListener" =>
             Has(sorted', last'.name) /\ ~sorted'[last'.name]
       /\ last'.op = "removeListener" =>
             IF Has(listeners', last'.name)
             THEN sorted'[last'.name] = sorted[last'.name]
             ELSE ~Has(sorted', last'.name)
       /\ (last'.op \in {"getListeners", "dispatch"} /\ Truthy(last'.name)
             /\ Has(listeners', last'.name)) => sorted'[last'.name]
       /\ SortedByLookupOnly]_vars

\* a removeListener took an entry out of a sorted name that keeps two
\* entries, and the name is still in the state "sorted"
C23_Witness ==
    /\ last.op = "removeListener"
    /\ last.found
    /\ Has(listeners, last.name)
    /\ Len(listeners[last.name]) = 2
    /\ sorted[last.name]

\* what is registered under n once removeListener(n, cb) was applied to
\* the registry R: callbacks and priorities in the order of a lookup
AfterRemove(R, n, cb) ==
    LET R1 == removeListenerFrom(R, n, cb)
    IN Plain(MapGet(getListenersOf(R1, n).reg.listeners, n, <<>>))

\* C24: the lazy sort is only a cache: a getListeners(name) call does not
\* change what a following getListenerPriority(name, cb) returns nor
\* which entry a following removeListener(name, cb) removes, for any
\* callback, also one registered several times with different priorities.
C24_LazySortIsCache ==
    [][\A n \in Names :
          (last'.op = "getListeners" /\ last'.name = n /\ Truthy(n)) =>
             \A cb \in Fns :
                /\ getListenerPriority(n, cb)' = getListenerPriority(n, cb)
                /\ AfterRemove(Reg', n, cb) = AfterRemove(Reg, n, cb)]_vars

\* C25: in every reachable state a name whose sorted flag is true holds
\* its entries by descending priority, equal priorities in registration
\* order, so the lookup that skips the sort returns them in that order
\* (also after a removeListener, which leaves the flag as it is).
C25_CacheSound ==
    \A n \in DOMAIN sorted : sorted[n] => Ordered(listeners[n])

\* a removeListener left a name flagged as sorted whose two entries are
\* not in the order of their registration
C25_Witness ==
    /\ last.op = "removeListener"
    /\ last.found
    /\ IsSorted(sorted, last.name)
    /\ Len(listeners[last.name]) = 2
    /\ listeners[last.name][1].reg > listeners[last.name][2].reg
    /\ listeners[last.name][1].priority > listeners[last.name][2].priority

\* C26: in every state reachable through the public operations no name
\* is mapped to an empty sequence of entries, and the names that hold a
\* sorted flag are exactly the names that hold a sequence of entries.
C26_RegistryWellFormed ==
    /\ \A n \in DOMAIN listeners : Len(listeners[n]) > 0
    /\ DOMAIN sorted = DOMAIN listeners

\* a removeListener took the last entry of a name while another name
\* keeps entries
C26_Witness ==
    /\ last.op = "removeListener"
    /\ last.found
    /\ ~Has(listeners, last.name)
    /\ ~Has(sorted, last.name)
    /\ DOMAIN listeners # {}

\* no listener registered under n throws when it is called with event
NoneThrows(n, event) ==
    \A e \in Entries(n) : Call(e.listener, event).end # "throw"

\* C27: the event name is not constrained: for every name, the empty
\* string included, hasListeners(name) is true exactly when name has
\* entries, getListeners(name) returns the callbacks registered under
\* name, and dispatch(event, name) of an event that is not stopped, to
\* listeners that do not throw, invokes the listeners registered under
\* name and no others.
C27_AnyEventName ==
    \A n \in Names :
        /\ hasListeners(n) <=> Entries(n) # {}
        /\ (last.op = "getListeners" /\ last.name = n) =>
              /\ last.kind = "list"
              /\ last.list = MapListener(MapGet(listeners, n, <<>>))
        /\ (last.op = "dispatch" /\ last.arg = n /\ ~StopCheck(last.event)
              /\ NoneThrows(n, last.event)) =>
              /\ ~last.threw
              /\ last.sink = 0
              /\ Logged = Entries(n)

\* C28: the stop check comes before each invocation, the first included:
\* a dispatch of an event that is already stopped invokes no registered
\* listener and returns the event; an event object that does not expose
\* isPropagationStopped is delivered to every registered listener.
C28_StopCheckFirst ==
    (last.op = "dispatch" /\ Truthy(last.name) /\ Entries(last.name) # {}) =>
        /\ (isStoppableEvent(last.event) /\ last.was) =>
              /\ last.log = <<>>
              /\ ~last.threw
              /\ last.kind = "event"
        /\ ~isStoppableEvent(last.event) => Logged = Entries(last.name)

\* the event as dispatch received it
Received == [kind |-> last.event.kind, stopped |-> last.was]

\* C29: in NodeEventDispatcher and BrowserEventDispatcher the registered
\* listeners a dispatch invokes, and their order, are those the loop
\* invokes for the event as dispatch received it, whatever listeners are
\* attached to the emitter / EventTarget and whatever they do with the
\* event (stopPropagation, an exception).
C29_NativeBridgeNeutral ==
    (last.op = "dispatch" /\ impl \in {"Node", "Browser"}) =>
        last.log = RunListeners(SortArray(Sequence), Received).log

\* C30: within one dispatch of NodeEventDispatcher the listeners
\* registered through addListener are invoked before the listeners
\* attached to the emitter for the same name.
C30_RegistryBeforeNative ==
    (last.op = "dispatch" /\ impl = "Node") =>
        \A i, j \in 1..Len(last.trace) :
            (last.trace[i] = "registry" /\ last.trace[j] = "native") => i < j

\* the listeners attached to the emitter under the name of the dispatch
NativeOf(name) == MapGet(native, name, <<>>)

\* how many listeners of the emitter the dispatch invoked
NativeRuns == Cardinality({i \in 1..Len(last.trace) : last.trace[i] = "native"})

C32_EmitterCleanup ==
    [][(last'.op = "removeListener" /\ last'.found /\ impl = "Node") =>
          IF Has(listeners', last'.name)
          THEN native' = native
          ELSE MapGet(native', last'.name, <<>>) = <<>>]_vars

\* the removal of the last registered entry of a name took two listeners
\* off the emitter
C32_Witness ==
    /\ last.op = "removeListener"
    /\ last.found
    /\ impl = "Node"
    /\ ~Has(listeners, last.name)
    /\ last.attached = 2
    /\ NativeOf(last.name) = <<>>

\* C33: a dispatch whose listeners call neither addListener nor
\* removeListener leaves what the registry shows unchanged: getListeners
\* and getListenerPriority return after it what they returned before it,
\* and a second dispatch of the same event as it was received invokes
\* the same listeners in the same order.
C33_DispatchKeepsRegistry ==
    [][\A n \in Names :
          (last'.op = "dispatch" /\ last'.name = n /\ Truthy(n)) =>
             /\ getListenersOf(Reg', n).list = getListenersOf(Reg, n).list
             /\ \A cb \in Fns :
                   getListenerPriority(n, cb)' = getListenerPriority(n, cb)
             /\ last'.threw \/
                   Plain(RunListeners(MapGet(listeners', n, <<>>), Received').log)
                     = Plain(last'.log)]_vars

\* the registry after the calls the listeners of seq make, in their order
RECURSIVE Edited(_, _)
Edited(R, seq) ==
    IF seq = <<>> THEN R
    ELSE Edited(Body(Head(seq), NewEvent, World(R)).world.reg, Tail(seq))

\* C34: the sequence of listeners of a dispatch is fixed when it starts:
\* a dispatch invokes the listeners getListeners(name) returned, all of
\* them and in that order, also when one of them calls addListener or
\* removeListener for that name (a listener removed by an earlier one is
\* still invoked, one added is not); the registry holds the changes when
\* dispatch returns, for the next dispatch.
C34_Snapshot ==
    [][last'.op = "dispatch" =>
          /\ MapListener(last'.log) = getListenersOf(Reg, EditName).list
          /\ Plain(MapGet(listeners', EditName, <<>>)) =
                Plain(MapGet(Edited(getListenersOf(Reg, EditName).reg,
                                    MapListener(last'.log)).listeners,
                             EditName, <<>>))]_vars

\* a listener removed the listener behind it, which the same dispatch
\* still invoked and which is not registered any more
C34_Witness ==
    /\ last.op = "dispatch"
    /\ MapListener(last.log) = <<<<"edit", "remove", 0>>, EditFn>>
    /\ Count(listeners, EditName, EditFn) = 0
    /\ Has(listeners, EditName)

\* the positions of last.calls made by the outer dispatch
Outer == {i \in 1..Len(last.calls) : last.calls[i].depth = 0}

\* the invocations between the outer invocation at i and the next one
Inside(i) ==
    LET next == {j \in Outer : j > i}
        end == IF next = {} THEN Len(last.calls)
               ELSE (CHOOSE j \in next : \A k \in next : j <= k) - 1
    IN [k \in 1..(end - i) |-> last.calls[i + k].listener]

\* what a dispatch of a new Child event under name t invokes
InnerRun(t) ==
    MapListener(RunListeners(MapGet(listeners, t, <<>>), ChildEvent).log)

\* how far the outer loop gets: to its first listener that stops the event
OwnLen ==
    LET stops == {k \in 1..Len(Sequence) : Sequence[k].listener = StopFn}
    IN IF stops = {} THEN Len(Sequence)
       ELSE CHOOSE k \in stops : \A j \in stops : k <= j

\* C35: when a listener of a dispatch D1 calls dispatch, the inner
\* dispatch invokes its listeners, all that its own event lets it, before
\* D1 invokes its next listener; D1 invokes its listeners in priority
\* order up to the first of them that stops D1's event, whatever the
\* inner dispatch and its listeners did (D1's own listeners do not throw).
C35_NestedDispatch ==
    (last.op = "dispatch" /\ NoneThrows(last.name, Received)) =>
        /\ last.log = SubSeq(Sequence, 1, OwnLen)
        /\ \A i \in Outer :
              Inside(i) = IF last.calls[i].listener[1] = "nest"
                          THEN InnerRun(last.calls[i].listener[2])
                          ELSE <<>>

LaterFn == <<"fn", "later", 0>>

\* C36: a stopPropagation() that an async listener calls after its first
\* await does not keep the listener behind it in the sequence from being
\* invoked by the same dispatch, and the event is not stopped by it when
\* dispatch returns; the event is stopped once the continuation has run.
C36_LateStop ==
    /\ last.op = "dispatch" =>
          /\ \A k \in 1..Len(last.log) :
                (last.log[k].listener = LaterFn /\ k < Len(Sequence)) =>
                    Len(last.log) > k
          /\ (last.event.stopped /\ ~last.was) =>
                \E k \in 1..Len(last.log) : last.log[k].listener = StopFn
    /\ last.op = "resume" => held.stopped

\* a dispatch invoked the async listener and the listener behind it and
\* returned an event that is not stopped, with the continuation pending
C36_Witness ==
    /\ last.op = "dispatch"
    /\ MapListener(last.log) = <<LaterFn, <<"fn", "ok", 0>>>>
    /\ ~last.event.stopped
    /\ ~held.stopped
    /\ Len(promises) = 1

\* C37: event names are independent: addListener, removeListener and
\* dispatch on one name leave entries, priorities, order and sort flag of
\* every other name as they were, and a dispatch invokes no listener that
\* is not registered under its name.
C37_NamesIndependent ==
    [][\A n \in Names :
          (last'.op \in {"addListener", "removeListener", "dispatch"}
             /\ last'.name = n) =>
             /\ \A m \in Names \ {n} :
                   /\ Has(listeners', m) <=> Has(listeners, m)
                   /\ MapGet(listeners', m, <<>>) = MapGet(listeners, m, <<>>)
                   /\ Has(sorted', m) <=> Has(sorted, m)
                   /\ MapGet(sorted', m, FALSE) = MapGet(sorted, m, FALSE)
             /\ \A i \in 1..Len(last'.log) :
                   Count(listeners', n, last'.log[i].listener) > 0]_vars

\* the callbacks removeSubscriber(s) would pass to removeListener
Retained(B, s) ==
    IF Has(B, s) THEN {B[s][i].listener : i \in 1..Len(B[s])} ELSE {}

\* C38: an addSubscriber(s) that throws part-way leaves the registry as
\* it was before the call, or has every entry it registered for s in the
\* record that removeSubscriber(s) goes through.
C38_AddSubscriberAtomic ==
    [][(last'.op = "addSubscriber" /\ last'.threw) =>
          \/ listeners' = listeners /\ sorted' = sorted
          \/ \A n \in DOMAIN listeners' :
                \A i \in 1..Len(listeners'[n]) :
                   listeners'[n][i].listener[1] = last'.name =>
                      listeners'[n][i].listener \in
                         Retained(subscriberListeners', last'.name)]_vars

\* how many listeners of the target call handler h for the name n
Attached(T, n, h) ==
    Cardinality({i \in 1..Len(T) : T[i].name = n /\ T[i].handler = h})

\* C39: in the Node branch and in the browser branch alike, off(name, h)
\* takes a listener that on(name, h) or once(name, h) attached away, so
\* that after on(name, h) and off(name, h) an emit(name, data) does not
\* invoke h; an emit invokes the handlers attached under the name; and a
\* handler attached with once(name, h) is not attached any more after the
\* emit that invoked it.
C39_EmitterOff ==
    [][/\ last'.op = "emitter.off" =>
             Attached(target', last'.name, last'.cb) =
                IF Attached(target, last'.name, last'.cb) = 0 THEN 0
                ELSE Attached(target, last'.name, last'.cb) - 1
       /\ last'.op = "emitter.emit" =>
             /\ \A h \in Handlers :
                   Occurs(last'.list, h) = Attached(target, last'.name, h)
             /\ \A i \in 1..Len(target') :
                   ~(target'[i].name = last'.name /\ target'[i].once)]_vars
====
